---------------------------- MODULE Spec2Model ----------------------------
(***************************************************************************)
(* Model of the notification delivery engine (notifications/service.py),   *)
(* its Delivery Record (notifications/models.py) and the Celery retry      *)
(* envelope (notifications/tasks.py).                                      *)
(*                                                                         *)
(* Spec     : NotificationService used directly (notify_user), with any    *)
(*            ordered channel list placed in service.channels.             *)
(* TaskSpec : one submission of send_notification_task and all the retry   *)
(*            messages it publishes, executed one at a time by a worker.   *)
(* ConcSpec : two submissions of the task and their retries, executed by   *)
(*            two workers whose steps interleave.                          *)
(* ChannelSpec : the channels of notifications/channels.py, each called    *)
(*            on its own for any recipient, settings and transport outcome.*)
(* TaskFairSpec : TaskSpec with a worker that keeps going (weak fairness).  *)
(* RealSpec : NotificationService with the channels of __init__, whose     *)
(*            results are those channels.py allows for the recipient.      *)
(*                                                                         *)
(* A channel's send returns True, returns False or (a channel placed in    *)
(* service.channels by the caller) raises.  The database calls,            *)
(* Notification.objects.create and notification.save(), either succeed or  *)
(* raise, at most MaxDbFaults times in a behaviour.                        *)
(***************************************************************************)
EXTENDS Naturals, Sequences, FiniteSets, Bags

VARIABLES
    channels,                 \* service.channels: ordered channel names
    failed_channels,          \* service.failed_channels
    last_successful_channel,  \* service.last_successful_channel
    notification,             \* the Notification instance held by send()
    db,                       \* the notifications table: row id -> persisted row
    pc,                       \* position of the engine
    idx,                      \* position of the for loop in service.channels
    result,                   \* value returned by send()
    exc,                      \* exception that left send() or the task body
    sendLog,                  \* outcome of every channel.send call of this run
    runs,                     \* engine runs started so far
    queue,                    \* task messages published and not yet executed
    request,                  \* self.request of the attempt being executed,
                              \* with the delay its message was sent with
    taskLog,                  \* how every attempt executed so far ended
    dbFaults,                 \* database errors raised so far
    lastRun,                  \* what a direct caller saw of its previous run
    chan,                     \* a channel of channels.py: the recipient, the
                              \* settings and the last send() call made on it
    parked                    \* the second worker: its service, its position
                              \* in send() and its self.request, while the
                              \* variables above hold those of the worker
                              \* that takes the next step

vars == <<channels, failed_channels, last_successful_channel, notification, db,
          pc, idx, result, exc, sendLog, runs, queue, request, taskLog, dbFaults,
          lastRun, chan, parked>>

engineVars == <<channels, failed_channels, last_successful_channel, notification,
                db, pc, idx, result, exc, sendLog>>

taskVars == <<queue, request, taskLog>>

--------------------------------------------------------------------------
(* Bounds *)

\* engine runs made by a direct caller in one behaviour
MaxRuns == 2

\* attempts of send_notification_task a worker executes in one behaviour
MaxAttempts == 5

\* database errors (Notification.objects.create or save raising) in one behaviour
MaxDbFaults == 1

\* attempts of send_notification_task two concurrent workers take in one behaviour
MaxPoolAttempts == 3

\* attempts of send_notification_task the worker of TaskFairSpec executes in
\* one behaviour
MaxFairAttempts == 4

--------------------------------------------------------------------------
(* Values *)

None == "None"

\* channel_name of TelegramChannel, EmailChannel, TwilioSMSChannel
ChannelNames == {"telegram", "email", "sms"}

\* the list built by NotificationService.__init__
DefaultChannels == <<"telegram", "email", "sms">>

\* the sequences over S of length at most n
RECURSIVE SeqsOver(_, _)
SeqsOver(S, n) ==
    IF n = 0 THEN {<<>>}
    ELSE LET shorter == SeqsOver(S, n - 1)
         IN  shorter \cup
             {Append(s, c) : s \in {t \in shorter : Len(t) = n - 1},
                             c \in S}

\* no channel appears twice in the list
Distinct(s) == \A i, j \in 1..Len(s) : i # j => s[i] # s[j]

\* every ordered list of distinct channels, the empty one included
ChannelLists == {s \in SeqsOver(ChannelNames, Cardinality(ChannelNames)) : Distinct(s)}

\* Notification as built by Notification.objects.create(status='pending'):
\* sent_via defaults to '' and sent_at to NULL
NewNotification(id) ==
    [id |-> id, status |-> "pending", sent_via |-> "", sent_at |-> None]

\* no Notification instance yet
NoNotification == [id |-> 0, status |-> "", sent_via |-> "", sent_at |-> None]

\* the row written by Model.save(): every field of the instance
RowOf(n) == [status |-> n.status, sent_via |-> n.sent_via, sent_at |-> n.sent_at]

\* a save() that writes the newest row of the table instead of the row with
\* the instance's id
Save_NewestRow(table, n) == [table EXCEPT ![Len(table)] = RowOf(n)]

\* notification.save()
Save(table, n) == [table EXCEPT ![n.id] = RowOf(n)]

\* notification.status = 'sent'; notification.sent_via = channel_name
MarkSent(n, channel_name) == [n EXCEPT !.status = "sent", !.sent_via = channel_name]

\* the status assignment before the final save() left out
MarkFailed_Forgotten(n) == n

\* notification.status = 'failed'
MarkFailed(n) == [n EXCEPT !.status = "failed"]

\* NotificationService.get_delivery_report
get_delivery_report ==
    [success |-> last_successful_channel # None,
     successful_channel |-> last_successful_channel,
     failed_channels |-> failed_channels,
     total_channels_attempted |->
         Len(failed_channels) + (IF last_successful_channel # None THEN 1 ELSE 0)]

--------------------------------------------------------------------------
(* channels.py: what one channel.send call does *)

\* the recipient as the channels read it: user.email, user.userprofile and the
\* profile's phone_number and telegram_chat_id, each set or not
Users ==
    {u \in [email : BOOLEAN, userprofile : BOOLEAN, phone_number : BOOLEAN,
            telegram_chat_id : BOOLEAN] :
        ~u.userprofile => (~u.phone_number /\ ~u.telegram_chat_id)}

\* django.conf.settings as the channels read it: the EMAIL_HOST* settings, the
\* Twilio credentials, TWILIO_PHONE_NUMBER and TELEGRAM_BOT_TOKEN, set or not
Settings == [email : BOOLEAN, twilio : BOOLEAN, twilio_from : BOOLEAN,
             bot_token : BOOLEAN]

\* what the transport does with a message handed to it
TransportOutcomes == {"accepted", "rejected", "network_error", "exception"}

\* send() returned `value`; `transport` tells whether the transport was called
Returned(value, transport) ==
    [returns |-> value, raises |-> None, transport |-> transport]

\* an exception of class e is on its way out of the transport call
Raised(e) == [returns |-> None, raises |-> e, transport |-> TRUE]

\* an except clause for class `clause` handles e (every class raised here
\* derives from Exception)
Catches(clause, e) == clause = "Exception" \/ clause = e

\* try: body / except <clauses>: ... return False
Try(body, clauses) ==
    IF body.raises # None /\ \E c \in clauses : Catches(c, body.raises)
    THEN Returned("False", body.transport)
    ELSE body

\* send_mail(..., fail_silently=False)
send_mail(t) ==
    CASE t = "accepted"      -> Returned("True", TRUE)
      [] t = "rejected"      -> Raised("SMTPException")
      [] t = "network_error" -> Raised("OSError")
      [] t = "exception"     -> Raised("ValueError")

\* EmailChannel.send
EmailChannel_send(user, settings, t) ==
    IF ~user.email THEN Returned("False", FALSE)
    ELSE Try(IF ~settings.email THEN Returned("False", FALSE) ELSE send_mail(t),
             {"Exception"})

\* self.client.messages.create(body=..., from_=settings.TWILIO_PHONE_NUMBER, to=...)
messages_create(settings, t) ==
    IF ~settings.twilio_from
    THEN [returns |-> None, raises |-> "AttributeError", transport |-> FALSE]
    ELSE CASE t = "accepted"      -> Returned("True", TRUE)
           [] t = "rejected"      -> Raised("TwilioRestException")
           [] t = "network_error" -> Raised("ConnectionError")
           [] t = "exception"     -> Raised("ValueError")

\* TwilioSMSChannel.send with only its except TwilioRestException clause
TwilioSMSChannel_send_RestOnly(user, settings, t) ==
    IF ~settings.twilio THEN Returned("False", FALSE)
    ELSE IF ~user.userprofile \/ ~user.phone_number THEN Returned("False", FALSE)
    ELSE Try(messages_create(settings, t), {"TwilioRestException"})

\* TwilioSMSChannel.send; self.client is set by __init__ when both Twilio
\* credentials are
TwilioSMSChannel_send(user, settings, t) ==
    IF ~settings.twilio THEN Returned("False", FALSE)
    ELSE IF ~user.userprofile \/ ~user.phone_number THEN Returned("False", FALSE)
    ELSE Try(messages_create(settings, t), {"TwilioRestException", "Exception"})

\* requests.post(url, json=payload, timeout=10), response.json() and the test
\* response.status_code == 200 and response_data.get('ok')
requests_post(t) ==
    CASE t = "accepted"      -> Returned("True", TRUE)
      [] t = "rejected"      -> Returned("False", TRUE)
      [] t = "network_error" -> Raised("RequestException")
      [] t = "exception"     -> Raised("ValueError")

\* TelegramChannel.send
TelegramChannel_send(user, settings, t) ==
    IF ~user.userprofile \/ ~user.telegram_chat_id THEN Returned("False", FALSE)
    ELSE IF ~settings.bot_token THEN Returned("False", FALSE)
    ELSE Try(requests_post(t), {"RequestException", "Exception"})

\* no send() call made yet on any channel
NoCall == [channel |-> None, transport |-> None, out |-> Returned(None, FALSE)]

\* the value of chan where no channel of channels.py is exercised
NoChannelCall == [user |-> None, settings |-> None, call |-> NoCall]

\* EmailChannel().send(user, subject, message) is called
EmailSend ==
    /\ chan.user \in Users
    /\ \E t \in TransportOutcomes :
        chan' = [chan EXCEPT !.call =
                    [channel |-> "email", transport |-> t,
                     out |-> EmailChannel_send(chan.user, chan.settings, t)]]
    /\ UNCHANGED <<engineVars, runs, taskVars, dbFaults, lastRun, parked>>

\* TwilioSMSChannel().send(user, subject, message) is called
TwilioSend ==
    /\ chan.user \in Users
    /\ \E t \in TransportOutcomes :
        chan' = [chan EXCEPT !.call =
                    [channel |-> "sms", transport |-> t,
                     out |-> TwilioSMSChannel_send(chan.user, chan.settings, t)]]
    /\ UNCHANGED <<engineVars, runs, taskVars, dbFaults, lastRun, parked>>

\* TelegramChannel().send(user, subject, message) is called
TelegramSend ==
    /\ chan.user \in Users
    /\ \E t \in TransportOutcomes :
        chan' = [chan EXCEPT !.call =
                    [channel |-> "telegram", transport |-> t,
                     out |-> TelegramChannel_send(chan.user, chan.settings, t)]]
    /\ UNCHANGED <<engineVars, runs, taskVars, dbFaults, lastRun, parked>>

--------------------------------------------------------------------------
(* NotificationService: the fallback engine *)
\* __init__ with failed_channels a list shared by every service (a class
\* attribute): what earlier runs appended is still there
ServiceInit_KeepsFailed(chs) ==
    /\ channels' = chs
    /\ last_successful_channel' = None
    /\ failed_channels' = failed_channels
    /\ notification' = NoNotification
    /\ idx' = 0
    /\ result' = None
    /\ exc' = None
    /\ sendLog' = <<>>
    /\ pc' = "constructed"
    /\ UNCHANGED db

\* NotificationService.__init__, followed by the caller placing `chs` in
\* service.channels (the default list when the caller leaves it alone)
ServiceInit(chs) ==
    /\ channels' = chs
    /\ last_successful_channel' = None
    /\ failed_channels' = <<>>
    /\ notification' = NoNotification
    /\ idx' = 0
    /\ result' = None
    /\ exc' = None
    /\ sendLog' = <<>>
    /\ pc' = "constructed"
    /\ UNCHANGED db

\* send(): Notification.objects.create(..., status='pending') inserts the row
SendCreate ==
    /\ pc = "constructed"
    /\ LET id == Len(db) + 1
       IN  /\ notification' = NewNotification(id)
           /\ db' = Append(db, RowOf(NewNotification(id)))
    /\ idx' = 1
    /\ pc' = "loop"
    /\ runs' = runs + 1
    /\ UNCHANGED <<lastRun, chan, parked>>
    /\ UNCHANGED <<dbFaults, channels, failed_channels, last_successful_channel, result,
                   exc, sendLog, taskVars>>

\* send(): Notification.objects.create raises (database error); nothing in
\* send() catches it
SendCreateRaises ==
    /\ dbFaults < MaxDbFaults
    /\ dbFaults' = dbFaults + 1
    /\ pc = "constructed"
    /\ exc' = "DatabaseError"
    /\ pc' = "raised"
    /\ runs' = runs + 1
    /\ UNCHANGED <<lastRun, chan, parked>>
    /\ UNCHANGED <<channels, failed_channels, last_successful_channel,
                   notification, db, idx, result, sendLog, taskVars>>

\* the loop body without its `return True`: the loop goes on after a success
SendChannelSuccess_NoReturn ==
    /\ pc = "loop"
    /\ idx <= Len(channels)
    /\ LET channel_name == channels[idx]
       IN  /\ notification' = MarkSent(notification, channel_name)
           /\ db' = Save(db, MarkSent(notification, channel_name))
           /\ last_successful_channel' = channel_name
    /\ sendLog' = Append(sendLog, "True")
    /\ idx' = idx + 1
    /\ UNCHANGED <<lastRun, chan, parked>>
    /\ UNCHANGED <<dbFaults, channels, failed_channels, pc, result, exc, runs,
                   taskVars>>

\* loop body: channel.send returns True and notification.save() succeeds
SendChannelSuccess ==
    /\ pc = "loop"
    /\ idx <= Len(channels)
    /\ LET channel_name == channels[idx]
       IN  /\ notification' = MarkSent(notification, channel_name)
           /\ db' = Save(db, MarkSent(notification, channel_name))
           /\ last_successful_channel' = channel_name
    /\ sendLog' = Append(sendLog, "True")
    /\ result' = "True"
    /\ pc' = "returned"
    /\ UNCHANGED <<lastRun, chan, parked>>
    /\ UNCHANGED <<dbFaults, channels, failed_channels, idx, exc, runs, taskVars>>

\* loop body: channel.send returns True, notification.save() raises inside
\* the try block, the except clause records the channel and continues
SendChannelSuccessSaveRaises ==
    /\ dbFaults < MaxDbFaults
    /\ dbFaults' = dbFaults + 1
    /\ pc = "loop"
    /\ idx <= Len(channels)
    /\ LET channel_name == channels[idx]
       IN  /\ notification' = MarkSent(notification, channel_name)
           /\ failed_channels' = Append(failed_channels, channel_name)
    /\ sendLog' = Append(sendLog, "True")
    /\ idx' = idx + 1
    /\ UNCHANGED <<lastRun, chan, parked>>
    /\ UNCHANGED <<channels, last_successful_channel, db, pc, result, exc,
                   runs, taskVars>>

\* loop body: channel.send returns False
SendChannelFailure ==
    /\ pc = "loop"
    /\ idx <= Len(channels)
    /\ failed_channels' = Append(failed_channels, channels[idx])
    /\ sendLog' = Append(sendLog, "False")
    /\ idx' = idx + 1
    /\ UNCHANGED <<lastRun, chan, parked>>
    /\ UNCHANGED <<dbFaults, channels, last_successful_channel, notification, db, pc,
                   result, exc, runs, taskVars>>

\* the loop body without its except clause: the channel's exception leaves send()
SendChannelRaises_Propagates ==
    /\ pc = "loop"
    /\ idx <= Len(channels)
    /\ sendLog' = Append(sendLog, "raise")
    /\ exc' = "ChannelError"
    /\ pc' = "raised"
    /\ UNCHANGED <<lastRun, chan, parked>>
    /\ UNCHANGED <<dbFaults, channels, failed_channels, last_successful_channel,
                   notification, db, idx, result, runs, taskVars>>

\* the except clause, had it continued without recording the channel
SendChannelRaises_NotRecorded ==
    /\ pc = "loop"
    /\ idx <= Len(channels)
    /\ sendLog' = Append(sendLog, "raise")
    /\ idx' = idx + 1
    /\ UNCHANGED <<lastRun, chan, parked>>
    /\ UNCHANGED <<dbFaults, channels, failed_channels, last_successful_channel,
                   notification, db, pc, result, exc, runs, taskVars>>

\* loop body: channel.send raises; except Exception records it and continues
SendChannelRaises ==
    /\ pc = "loop"
    /\ idx <= Len(channels)
    /\ failed_channels' = Append(failed_channels, channels[idx])
    /\ sendLog' = Append(sendLog, "raise")
    /\ idx' = idx + 1
    /\ UNCHANGED <<lastRun, chan, parked>>
    /\ UNCHANGED <<dbFaults, channels, last_successful_channel, notification, db, pc,
                   result, exc, runs, taskVars>>

\* the end of send(), had it taken "no channel failed" for success: with no
\* channel configured the record is marked 'sent' and True is returned
SendAllFailed_VacuousSuccess ==
    /\ pc = "loop"
    /\ idx > Len(channels)
    /\ LET n == IF channels = <<>> THEN [notification EXCEPT !.status = "sent"]
                ELSE MarkFailed(notification)
       IN  /\ notification' = n
           /\ db' = Save(db, n)
    /\ result' = IF channels = <<>> THEN "True" ELSE "False"
    /\ pc' = "returned"
    /\ UNCHANGED <<lastRun, chan, parked>>
    /\ UNCHANGED <<dbFaults, channels, failed_channels, last_successful_channel, idx,
                   exc, sendLog, runs, taskVars>>

\* after the loop: notification.status = 'failed'; save(); return False
SendAllFailed ==
    /\ pc = "loop"
    /\ idx > Len(channels)
    /\ notification' = MarkFailed(notification)
    /\ db' = Save(db, MarkFailed(notification))
    /\ result' = "False"
    /\ pc' = "returned"
    /\ UNCHANGED <<lastRun, chan, parked>>
    /\ UNCHANGED <<dbFaults, channels, failed_channels, last_successful_channel, idx,
                   exc, sendLog, runs, taskVars>>

\* after the loop: the save() of the 'failed' status raises and leaves send()
SendAllFailedSaveRaises ==
    /\ dbFaults < MaxDbFaults
    /\ dbFaults' = dbFaults + 1
    /\ pc = "loop"
    /\ idx > Len(channels)
    /\ notification' = MarkFailed(notification)
    /\ exc' = "DatabaseError"
    /\ pc' = "raised"
    /\ UNCHANGED <<lastRun, chan, parked>>
    /\ UNCHANGED <<channels, failed_channels, last_successful_channel, db, idx,
                   result, sendLog, runs, taskVars>>

\* database errors raised since the service of the current run was built
RunFaults == dbFaults - lastRun.faultsSeen

\* nothing kept of a previous run; `seen` database errors were raised before
\* the current one
NotObservedAt(seen) ==
    [finished |-> FALSE, channels |-> <<>>, sendLog |-> <<>>, faults |-> 0,
     report |-> None, result |-> None, id |-> 0, row |-> None, faultsSeen |-> seen]

NotObserved == NotObservedAt(dbFaults)

\* what the caller of a run that returned holds when it starts the next one:
\* the channels it configured and how each behaved, the value send() returned,
\* the report and the record of that run
Observed ==
    [finished |-> TRUE, channels |-> channels, sendLog |-> sendLog,
     faults |-> RunFaults, report |-> get_delivery_report, result |-> result,
     id |-> notification.id, row |-> db[notification.id],
     faultsSeen |-> dbFaults]

\* a direct caller (notify_user, the test script) builds a service for a run
NotifyUser ==
    /\ ~request.active
    /\ pc \in {"idle", "returned", "raised"}
    /\ runs < MaxRuns
    /\ \E chs \in ChannelLists : ServiceInit(chs)
    /\ lastRun' = IF pc = "returned" THEN Observed ELSE NotObserved
    /\ UNCHANGED <<chan, parked>>
    /\ UNCHANGED <<runs, taskVars, dbFaults>>

--------------------------------------------------------------------------
(* send_notification_task: the Celery retry envelope *)

\* @shared_task(bind=True, max_retries=3, default_retry_delay=30)
max_retries == 3

\* raise self.retry(countdown=60): the delay after a total failure
total_failure_countdown == 60

\* raise self.retry(exc=e, countdown=30): the delay after an unexpected error
unexpected_error_countdown == 30

\* a task message: the retry count it carries and the delay it was sent with
Messages == [retries : 0..(max_retries + 1), countdown : {0, 30, 60}]

\* the broker's content: a bag of messages waiting for a worker
NoMessages == EmptyBag

\* apply_async of each message of the sequence msgs
RECURSIVE Publish(_, _)
Publish(q, msgs) ==
    IF msgs = <<>> THEN q
    ELSE Publish(q (+) SetToBag({Head(msgs)}), Tail(msgs))

\* no attempt is being executed
NoRequest == [active |-> FALSE, retries |-> 0, countdown |-> 0]

\* the message published by send_notification_task.delay(user_id, subject, message)
Submission == [retries |-> 0, countdown |-> 0]

\* the budget test off by one: one retry more than max_retries
RetriesExhausted_OffByOne(retries) == retries > max_retries

\* self.retry(...) finds the retry budget used up: retries + 1 > max_retries
RetriesExhausted(retries) == retries + 1 > max_retries

\* a retry that publishes the task again without counting it: the message
\* carries the retry count of the attempt that failed
TaskRetry_SameCount(retries, e, countdown) ==
    IF RetriesExhausted(retries)
    THEN [raises |-> IF e = None THEN "MaxRetriesExceededError" ELSE e,
          publishes |-> <<>>]
    ELSE [raises |-> "Retry",
          publishes |-> <<[retries |-> retries, countdown |-> countdown]>>]

\* self.retry(exc=e, countdown=c) in an attempt with self.request.retries =
\* retries: with the budget used up it raises e (MaxRetriesExceededError when
\* no exc is given) and publishes nothing; otherwise it publishes the task
\* again with retries + 1 and raises Retry.
TaskRetry(retries, e, countdown) ==
    IF RetriesExhausted(retries)
    THEN [raises |-> IF e = None THEN "MaxRetriesExceededError" ELSE e,
          publishes |-> <<>>]
    ELSE [raises |-> "Retry",
          publishes |-> <<[retries |-> retries + 1, countdown |-> countdown]>>]

\* the except Exception clause, had it re-raised e without asking for a retry
ExceptHandler_NoRetry(retries, e, before) ==
    [retries |-> retries,
     send |-> IF e \in {"Retry", "MaxRetriesExceededError"}
              THEN "False" ELSE "raised",
     outcome |-> IF e = "MaxRetriesExceededError"
                 THEN "max_retries_exceeded"
                 ELSE e,
     channel |-> None,
     publishes |-> before]

\* except Exception as e: ... raise self.retry(exc=e, countdown=30), with
\* except MaxRetriesExceededError returning the 'max_retries_exceeded' result.
\* `before` are the messages published before the handler was entered. The
\* result records how the attempt ended: what service.send() did (`send`),
\* the value returned or the exception raised by the task (`outcome`) and
\* the retry messages it published (`publishes`).
ExceptHandler(retries, e, before) ==
    LET again == TaskRetry(retries, e, unexpected_error_countdown)
    IN  [retries |-> retries,
         send |-> IF e \in {"Retry", "MaxRetriesExceededError"}
                  THEN "False" ELSE "raised",
         outcome |-> IF again.raises = "MaxRetriesExceededError"
                     THEN "max_retries_exceeded"
                     ELSE again.raises,
         channel |-> None,
         publishes |-> before \o again.publishes]

\* else branch: raise self.retry(countdown=60) inside the try block; what it
\* raises (Retry or MaxRetriesExceededError) is an Exception, so the
\* except Exception clause of the same try statement handles it.
TotalFailureBranch(retries) ==
    LET first == TaskRetry(retries, None, total_failure_countdown)
    IN  ExceptHandler(retries, first.raises, first.publishes)

\* the task function is left: the service and the locals of send() are gone
TaskLeaves ==
    /\ channels' = DefaultChannels
    /\ failed_channels' = <<>>
    /\ last_successful_channel' = None
    /\ notification' = NoNotification
    /\ idx' = 0
    /\ result' = None
    /\ exc' = None
    /\ sendLog' = <<>>
    /\ pc' = "idle"

\* a worker that is executing no task
IdleWorker ==
    [channels |-> DefaultChannels, failed_channels |-> <<>>,
     last_successful_channel |-> None, notification |-> NoNotification,
     pc |-> "idle", idx |-> 0, result |-> None, exc |-> None, sendLog |-> <<>>,
     request |-> NoRequest]

\* the worker that takes the next step: its service, the locals of its send()
\* call and its self.request
Worker ==
    [channels |-> channels, failed_channels |-> failed_channels,
     last_successful_channel |-> last_successful_channel,
     notification |-> notification, pc |-> pc, idx |-> idx, result |-> result,
     exc |-> exc, sendLog |-> sendLog, request |-> request]

\* two workers execute tasks of the queue at the same time: the one that took
\* the last step stops where it is and the other one goes on; the table, the
\* queue and the history are shared
Switch ==
    /\ parked # Worker
    /\ parked' = Worker
    /\ channels' = parked.channels
    /\ failed_channels' = parked.failed_channels
    /\ last_successful_channel' = parked.last_successful_channel
    /\ notification' = parked.notification
    /\ pc' = parked.pc
    /\ idx' = parked.idx
    /\ result' = parked.result
    /\ exc' = parked.exc
    /\ sendLog' = parked.sendLog
    /\ request' = parked.request
    /\ UNCHANGED <<db, runs, queue, taskLog, dbFaults, lastRun, chan>>

\* a worker takes a message, User.objects.get finds the user and
\* NotificationService(user, subject, message) is built
TaskStart ==
    /\ ~request.active
    /\ pc = "idle"
    /\ Len(taskLog) < MaxAttempts
    /\ \E m \in Messages :
        /\ BagIn(m, queue)
        /\ queue' = queue (-) SetToBag({m})
        /\ request' = [active |-> TRUE, retries |-> m.retries,
                        countdown |-> m.countdown]
    /\ ServiceInit(DefaultChannels)
    /\ UNCHANGED <<lastRun, chan, parked>>
    /\ UNCHANGED <<runs, taskLog, dbFaults>>

\* TaskUserNotFound, had the handler asked for a retry before returning
TaskUserNotFound_Retried ==
    /\ ~request.active
    /\ pc = "idle"
    /\ Len(taskLog) < MaxAttempts
    /\ \E m \in Messages :
        /\ BagIn(m, queue)
        /\ LET again == TaskRetry(m.retries, None, unexpected_error_countdown)
           IN  /\ queue' = Publish(queue (-) SetToBag({m}), again.publishes)
               /\ taskLog' = Append(taskLog, [retries |-> m.retries,
                                              send |-> None,
                                              outcome |-> "user_not_found",
                                              channel |-> None,
                                              publishes |-> again.publishes])
    /\ UNCHANGED <<lastRun, chan, parked>>
    /\ UNCHANGED <<engineVars, runs, request, dbFaults>>

\* a worker takes a message and User.objects.get raises User.DoesNotExist:
\* the task returns {'status': 'error', 'reason': 'user_not_found'}
TaskUserNotFound ==
    /\ ~request.active
    /\ pc = "idle"
    /\ Len(taskLog) < MaxAttempts
    /\ \E m \in Messages :
        /\ BagIn(m, queue)
        /\ queue' = queue (-) SetToBag({m})
        /\ taskLog' = Append(taskLog, [retries |-> m.retries,
                                       send |-> None,
                                       outcome |-> "user_not_found",
                                       channel |-> None,
                                       publishes |-> <<>>])
    /\ UNCHANGED <<lastRun, chan, parked>>
    /\ UNCHANGED <<engineVars, runs, request, dbFaults>>

\* a worker takes a message and User.objects.get raises a database error:
\* the except Exception clause retries the task; the engine is not invoked
TaskLookupRaises ==
    /\ ~request.active
    /\ pc = "idle"
    /\ Len(taskLog) < MaxAttempts
    /\ dbFaults < MaxDbFaults
    /\ dbFaults' = dbFaults + 1
    /\ \E m \in Messages :
        /\ BagIn(m, queue)
        /\ LET end == ExceptHandler(m.retries, "DatabaseError", <<>>)
           IN  /\ queue' = Publish(queue (-) SetToBag({m}), end.publishes)
               /\ taskLog' = Append(taskLog, [end EXCEPT !.send = None])
    /\ UNCHANGED <<lastRun, chan, parked>>
    /\ UNCHANGED <<engineVars, runs, request>>

\* TaskSuccess, had the result named the first configured channel
TaskSuccess_FirstChannel ==
    /\ request.active
    /\ pc = "returned"
    /\ result = "True"
    /\ taskLog' = Append(taskLog, [retries |-> request.retries,
                                   send |-> "True",
                                   outcome |-> "success",
                                   channel |-> channels[1],
                                   publishes |-> <<>>])
    /\ request' = NoRequest
    /\ TaskLeaves
    /\ UNCHANGED <<lastRun, chan, parked>>
    /\ UNCHANGED <<db, runs, queue, dbFaults>>

\* service.send() returned True: the task returns the 'success' result
TaskSuccess ==
    /\ request.active
    /\ pc = "returned"
    /\ result = "True"
    /\ taskLog' = Append(taskLog, [retries |-> request.retries,
                                   send |-> "True",
                                   outcome |-> "success",
                                   channel |-> last_successful_channel,
                                   publishes |-> <<>>])
    /\ request' = NoRequest
    /\ TaskLeaves
    /\ UNCHANGED <<lastRun, chan, parked>>
    /\ UNCHANGED <<db, runs, queue, dbFaults>>

\* service.send() returned False: the else branch retries the task
TaskTotalFailure ==
    /\ request.active
    /\ pc = "returned"
    /\ result = "False"
    /\ LET end == TotalFailureBranch(request.retries)
       IN  /\ queue' = Publish(queue, end.publishes)
           /\ taskLog' = Append(taskLog, end)
    /\ request' = NoRequest
    /\ TaskLeaves
    /\ UNCHANGED <<lastRun, chan, parked>>
    /\ UNCHANGED <<db, runs, dbFaults>>

\* service.send() raised: the except Exception clause retries the task
TaskUnexpectedError ==
    /\ request.active
    /\ pc = "raised"
    /\ LET end == ExceptHandler(request.retries, exc, <<>>)
       IN  /\ queue' = Publish(queue, end.publishes)
           /\ taskLog' = Append(taskLog, end)
    /\ request' = NoRequest
    /\ TaskLeaves
    /\ UNCHANGED <<lastRun, chan, parked>>
    /\ UNCHANGED <<db, runs, dbFaults>>

--------------------------------------------------------------------------
(* Specification of the engine called directly *)

Init ==
    /\ channels = DefaultChannels
    /\ failed_channels = <<>>
    /\ last_successful_channel = None
    /\ notification = NoNotification
    /\ db = <<>>
    /\ pc = "idle"
    /\ idx = 0
    /\ result = None
    /\ exc = None
    /\ sendLog = <<>>
    /\ runs = 0
    /\ queue = NoMessages
    /\ request = NoRequest
    /\ taskLog = <<>>
    /\ dbFaults = 0
    /\ lastRun = NotObservedAt(0)
    /\ chan = NoChannelCall
    /\ parked = IdleWorker

Next ==
    \/ NotifyUser
    \/ SendCreate
    \/ SendCreateRaises
    \/ SendChannelSuccess
    \/ SendChannelSuccessSaveRaises
    \/ SendChannelFailure
    \/ SendChannelRaises
    \/ SendAllFailed
    \/ SendAllFailedSaveRaises

Spec == Init /\ [][Next]_vars

--------------------------------------------------------------------------
(* Specification of one submission of send_notification_task *)

TaskInit ==
    /\ channels = DefaultChannels
    /\ failed_channels = <<>>
    /\ last_successful_channel = None
    /\ notification = NoNotification
    /\ db = <<>>
    /\ pc = "idle"
    /\ idx = 0
    /\ result = None
    /\ exc = None
    /\ sendLog = <<>>
    /\ runs = 0
    /\ queue = Publish(NoMessages, <<Submission>>)
    /\ request = NoRequest
    /\ taskLog = <<>>
    /\ dbFaults = 0
    /\ lastRun = NotObservedAt(0)
    /\ chan = NoChannelCall
    /\ parked = IdleWorker

\* The channels of a task attempt are the ones NotificationService.__init__
\* builds, whose send() returns True or False on every path (channels.py), so
\* SendChannelRaises is no step of an attempt; a database error is.
TaskNext ==
    \/ TaskStart
    \/ TaskUserNotFound
    \/ TaskLookupRaises
    \/ SendCreate
    \/ SendCreateRaises
    \/ SendChannelSuccess
    \/ SendChannelSuccessSaveRaises
    \/ SendChannelFailure
    \/ SendAllFailed
    \/ SendAllFailedSaveRaises
    \/ TaskSuccess
    \/ TaskTotalFailure
    \/ TaskUnexpectedError

TaskSpec == TaskInit /\ [][TaskNext]_vars

--------------------------------------------------------------------------
(* Specification of one submission executed by a worker that keeps going *)

\* the worker takes a message and finds the user
FairStart == Len(taskLog) < MaxFairAttempts /\ TaskStart

\* the worker takes a message and finds no user
FairUserNotFound == Len(taskLog) < MaxFairAttempts /\ TaskUserNotFound

\* the worker takes a message and the user lookup raises
FairLookupRaises == Len(taskLog) < MaxFairAttempts /\ TaskLookupRaises

TaskFairNext ==
    \/ FairStart
    \/ FairUserNotFound
    \/ FairLookupRaises
    \/ SendCreate
    \/ SendCreateRaises
    \/ SendChannelSuccess
    \/ SendChannelSuccessSaveRaises
    \/ SendChannelFailure
    \/ SendAllFailed
    \/ SendAllFailedSaveRaises
    \/ TaskSuccess
    \/ TaskTotalFailure
    \/ TaskUnexpectedError

\* the worker goes on as long as a step of an attempt or a queued message is
\* left to it
TaskFairSpec == TaskInit /\ [][TaskFairNext]_vars /\ WF_vars(TaskFairNext)

--------------------------------------------------------------------------
(* Specification of two workers executing the tasks of the queue *)

\* attempts taken off the queue so far: those that ended and those under way
Taken ==
    Len(taskLog) + (IF request.active THEN 1 ELSE 0)
                 + (IF parked.request.active THEN 1 ELSE 0)

\* a worker of the pool takes a message and finds the user
PoolStart == Taken < MaxPoolAttempts /\ TaskStart

\* a worker of the pool takes a message and finds no user
PoolUserNotFound == Taken < MaxPoolAttempts /\ TaskUserNotFound

\* a worker of the pool takes a message and the user lookup raises
PoolLookupRaises == Taken < MaxPoolAttempts /\ TaskLookupRaises

ConcInit ==
    /\ channels = DefaultChannels
    /\ failed_channels = <<>>
    /\ last_successful_channel = None
    /\ notification = NoNotification
    /\ db = <<>>
    /\ pc = "idle"
    /\ idx = 0
    /\ result = None
    /\ exc = None
    /\ sendLog = <<>>
    /\ runs = 0
    /\ queue = Publish(NoMessages, <<Submission, Submission>>)
    /\ request = NoRequest
    /\ taskLog = <<>>
    /\ dbFaults = 0
    /\ lastRun = NotObservedAt(0)
    /\ chan = NoChannelCall
    /\ parked = IdleWorker

ConcNext ==
    \/ Switch
    \/ PoolStart
    \/ PoolUserNotFound
    \/ PoolLookupRaises
    \/ SendCreate
    \/ SendCreateRaises
    \/ SendChannelSuccess
    \/ SendChannelSuccessSaveRaises
    \/ SendChannelFailure
    \/ SendAllFailed
    \/ SendAllFailedSaveRaises
    \/ TaskSuccess
    \/ TaskTotalFailure
    \/ TaskUnexpectedError

ConcSpec == ConcInit /\ [][ConcNext]_vars

--------------------------------------------------------------------------
(* Specification of the channels of channels.py, each called on its own *)

ChannelInit ==
    /\ channels = DefaultChannels
    /\ failed_channels = <<>>
    /\ last_successful_channel = None
    /\ notification = NoNotification
    /\ db = <<>>
    /\ pc = "idle"
    /\ idx = 0
    /\ result = None
    /\ exc = None
    /\ sendLog = <<>>
    /\ runs = 0
    /\ queue = NoMessages
    /\ request = NoRequest
    /\ taskLog = <<>>
    /\ dbFaults = 0
    /\ lastRun = NotObservedAt(0)
    /\ \E u \in Users, st \in Settings :
        chan = [user |-> u, settings |-> st, call |-> NoCall]
    /\ parked = IdleWorker

ChannelNext ==
    \/ EmailSend
    \/ TwilioSend
    \/ TelegramSend

ChannelSpec == ChannelInit /\ [][ChannelNext]_vars

--------------------------------------------------------------------------
(* Specification of the engine run over the channels of channels.py *)

\* channel.send(user, subject, message) for the channel of that name
ChannelSend(name, user, settings, t) ==
    CASE name = "telegram" -> TelegramChannel_send(user, settings, t)
      [] name = "email"    -> EmailChannel_send(user, settings, t)
      [] name = "sms"      -> TwilioSMSChannel_send(user, settings, t)

\* the channel at the loop position can return `value` for this recipient
\* and these settings, under some outcome of its transport
CanReturn(value) ==
    \E t \in TransportOutcomes :
        ChannelSend(channels[idx], chan.user, chan.settings, t).returns = value

\* a caller builds a service and leaves the channels of __init__ in place
DefaultNotifyUser ==
    /\ ~request.active
    /\ pc \in {"idle", "returned", "raised"}
    /\ runs < MaxRuns
    /\ ServiceInit(DefaultChannels)
    /\ lastRun' = IF pc = "returned" THEN Observed ELSE NotObserved
    /\ UNCHANGED <<chan, parked>>
    /\ UNCHANGED <<runs, taskVars, dbFaults>>

\* loop body: the channel of channels.py delivers and the save() succeeds
RealChannelSuccess ==
    /\ pc = "loop"
    /\ idx <= Len(channels)
    /\ CanReturn("True")
    /\ SendChannelSuccess

\* loop body: the channel of channels.py delivers and the save() raises
RealChannelSuccessSaveRaises ==
    /\ pc = "loop"
    /\ idx <= Len(channels)
    /\ CanReturn("True")
    /\ SendChannelSuccessSaveRaises

\* loop body: the channel of channels.py returns False
RealChannelFailure ==
    /\ pc = "loop"
    /\ idx <= Len(channels)
    /\ CanReturn("False")
    /\ SendChannelFailure

RealInit == ChannelInit

RealNext ==
    \/ DefaultNotifyUser
    \/ SendCreate
    \/ SendCreateRaises
    \/ RealChannelSuccess
    \/ RealChannelSuccessSaveRaises
    \/ RealChannelFailure
    \/ SendAllFailed
    \/ SendAllFailedSaveRaises

RealSpec == RealInit /\ [][RealNext]_vars

--------------------------------------------------------------------------
(* Properties of one engine run *)

\* positions of this run's channel.send calls that returned True
Delivered == {i \in 1..Len(sendLog) : sendLog[i] = "True"}

\* position of the first channel whose send returned True (0 when none did)
FirstSuccess ==
    IF Delivered = {} THEN 0
    ELSE CHOOSE i \in Delivered : \A j \in Delivered : i <= j

\* every configured channel was invoked and none returned True
EveryChannelFailed == Len(sendLog) = Len(channels) /\ Delivered = {}

\* the persisted row of the record this run created
Row == db[notification.id]

\* C1: when a run has returned and channel i is the first whose send returned
\* True, send returned True, the report names channel i as successful_channel
\* and failed_channels is exactly channels 1..i-1 in configured order.
C1_FirstSuccessWins ==
    (pc = "returned" /\ FirstSuccess > 0) =>
        /\ result = "True"
        /\ get_delivery_report.successful_channel = channels[FirstSuccess]
        /\ get_delivery_report.failed_channels = SubSeq(channels, 1, FirstSuccess - 1)

\* C2: within one run no channel.send is invoked after a send that returned
\* True, so at most one channel delivers per run.
C2_StopAtFirstSuccess ==
    /\ \A i \in Delivered : i = Len(sendLog)
    /\ Cardinality(Delivered) <= 1

\* C3: when a run has returned and every channel failed (returned False or
\* raised), send returned False, the report has success = false and no
\* successful_channel, failed_channels has one entry per configured channel
\* and the persisted record has status 'failed'.
C3_AllChannelsFailed ==
    (pc = "returned" /\ EveryChannelFailed) =>
        /\ result = "False"
        /\ get_delivery_report.success = FALSE
        /\ get_delivery_report.successful_channel = None
        /\ Len(get_delivery_report.failed_channels) = Len(channels)
        /\ Row.status = "failed"

\* C3 witness: a returned run over three channels, all failed, one by raising
C3_Witness ==
    /\ pc = "returned"
    /\ Len(channels) = 3
    /\ EveryChannelFailed
    /\ \E i \in 1..Len(sendLog) : sendLog[i] = "raise"
    /\ \E i \in 1..Len(sendLog) : sendLog[i] = "False"

\* C4: a channel.send that raises is caught in its own iteration: its name is
\* appended to failed_channels and the loop goes on to the next channel; the
\* only exceptions that leave send() come from the database, and a run that
\* returns False has invoked every configured channel.
C4_ChannelFaultContained ==
    /\ [][(pc = "loop" /\ sendLog' = Append(sendLog, "raise")) =>
            /\ failed_channels' = Append(failed_channels, channels[idx])
            /\ idx' = idx + 1
            /\ pc' = "loop"
            /\ exc' = None]_vars
    /\ [](pc = "raised" => exc = "DatabaseError")
    /\ []((pc = "returned" /\ result = "False") => Len(sendLog) = Len(channels))

\* C4 witness: a channel raised and a later channel was invoked and delivered
C4_Witness ==
    /\ pc = "returned"
    /\ result = "True"
    /\ Len(sendLog) = 3
    /\ sendLog[1] = "raise"
    /\ failed_channels[1] = channels[1]

\* C5: every persisted record has status 'sent' exactly when sent_via is set.
C5_SentIffSentVia ==
    \A id \in 1..Len(db) : (db[id].status = "sent") <=> (db[id].sent_via # "")

\* C6: a record is inserted with status 'pending'; its persisted status leaves
\* 'pending' at most once, to 'sent' or 'failed', and never changes afterwards;
\* a run that returns leaves its record 'sent' or 'failed'.
C6_StatusMonotonic ==
    /\ [][\A id \in 1..Len(db') :
            IF id > Len(db)
            THEN db'[id].status = "pending"
            ELSE /\ db[id].status # "pending" => db'[id].status = db[id].status
                 /\ db'[id].status \in {db[id].status, "sent", "failed"}]_vars
    /\ [](pc = "returned" => Row.status \in {"sent", "failed"})

\* C6 witness: two runs have returned, the first record is still 'sent' while
\* the second went from 'pending' to 'failed'
C6_Witness ==
    /\ pc = "returned"
    /\ Len(db) = 2
    /\ db[1].status = "sent"
    /\ db[2].status = "failed"

\* C7: after a run that returned True the persisted record has a sent_at.
C7_SentAtSet ==
    (pc = "returned" /\ result = "True") => Row.sent_at # None

--------------------------------------------------------------------------
(* Properties of the retry envelope *)

\* retry messages published by the attempts executed so far
RECURSIVE PublishedBy(_)
PublishedBy(log) ==
    IF log = <<>> THEN 0
    ELSE Len(log[Len(log)].publishes) + PublishedBy(SubSeq(log, 1, Len(log) - 1))

\* what service.send() did in each attempt executed so far
Sends == [i \in 1..Len(taskLog) |-> taskLog[i].send]

\* every attempt executed so far ran the engine, which returned False, and
\* the database raised no error
OnlyTotalFailures ==
    /\ dbFaults = 0
    /\ \A i \in 1..Len(taskLog) : taskLog[i].send = "False"

\* C8: when every engine run of the submission ended in total failure, the
\* engine has been invoked at most max_retries + 1 = 4 times.
C8_AtMostFourRuns ==
    (pc = "idle" /\ OnlyTotalFailures) => runs <= max_retries + 1

\* C9: no attempt runs, and no message waits, with a retry count above
\* max_retries; an attempt with retry count max_retries that fails, by total
\* failure or by unexpected error, publishes no retry.
C9_RetryBudget ==
    /\ request.active => request.retries <= max_retries
    /\ \A m \in BagToSet(queue) : m.retries <= max_retries
    /\ \A i \in 1..Len(taskLog) :
        /\ taskLog[i].retries <= max_retries
        /\ taskLog[i].retries = max_retries => taskLog[i].publishes = <<>>

\* C9 witness: an attempt with retry count 3 ended in total failure and
\* another in an unexpected error
C9_Witness ==
    /\ pc = "idle"
    /\ \E i \in 1..Len(taskLog) :
        taskLog[i].retries = max_retries /\ taskLog[i].send = "False"
    /\ \E i \in 1..Len(taskLog) :
        taskLog[i].retries = max_retries /\ taskLog[i].send = "raised"

\* C10: an attempt that ends in total failure with retries remaining publishes
\* exactly one retry, with countdown 60; and when the attempts executed are
\* total failure, total failure, success (Scenario D), two retries were
\* published, the engine ran three times and the last attempt returned
\* 'success'. Stated for the runs in which the database raises no error.
C10_OneRetryPerTotalFailure ==
    dbFaults = 0 =>
        /\ \A i \in 1..Len(taskLog) :
            (taskLog[i].send = "False" /\ taskLog[i].retries < max_retries) =>
                taskLog[i].publishes =
                    <<[retries |-> taskLog[i].retries + 1,
                       countdown |-> total_failure_countdown]>>
        /\ Sends = <<"False", "False", "True">> =>
            /\ PublishedBy(taskLog) = 2
            /\ runs = 3
            /\ taskLog[3].outcome = "success"

\* the attempt the last step added to taskLog
Ended == taskLog'[Len(taskLog')]

\* attempts that ended in an error other than total failure: service.send()
\* or User.objects.get raised
UnexpectedFaults ==
    {i \in 1..Len(taskLog) :
        \/ taskLog[i].send = "raised"
        \/ taskLog[i].send = None /\ taskLog[i].outcome # "user_not_found"}

\* C11: an attempt whose user lookup finds no user ends with the
\* 'user_not_found' result at any retry count: the step takes its message off
\* the queue and publishes none, the engine is not invoked and no record is
\* written.
C11_UserNotFoundTerminal ==
    /\ [][(Len(taskLog') > Len(taskLog) /\ Ended.outcome = "user_not_found") =>
            /\ Ended.publishes = <<>>
            /\ Ended.send = None
            /\ \E m \in BagToSet(queue) :
                m.retries = Ended.retries /\ queue' = queue (-) SetToBag({m})
            /\ runs' = runs
            /\ db' = db
            /\ pc' = "idle"
            /\ ~request'.active]_vars
    /\ [](\A i \in 1..Len(taskLog) :
            taskLog[i].outcome = "user_not_found" => taskLog[i].publishes = <<>>)

\* C11 witness: a retried attempt (retry count above 0) found no user
C11_Witness ==
    \E i \in 1..Len(taskLog) :
        taskLog[i].outcome = "user_not_found" /\ taskLog[i].retries > 0

\* C12: an attempt whose engine run returned True ends with the 'success'
\* result naming the channel whose send returned True last in that run, at
\* any retry count, and publishes no retry.
C12_SuccessCompletes ==
    /\ [][(request.active /\ pc = "returned" /\ result = "True"
            /\ Len(taskLog') > Len(taskLog)) =>
            /\ Ended.outcome = "success"
            /\ Ended.retries = request.retries
            /\ sendLog[Len(sendLog)] = "True"
            /\ Ended.channel = channels[Len(sendLog)]
            /\ Ended.publishes = <<>>
            /\ queue' = queue]_vars
    /\ [](\A i \in 1..Len(taskLog) :
            taskLog[i].send = "True" =>
                /\ taskLog[i].outcome = "success"
                /\ taskLog[i].channel \in ChannelNames
                /\ taskLog[i].publishes = <<>>)

\* C12 witness: the attempt with retry count max_retries succeeded through a
\* channel other than the first
C12_Witness ==
    \E i \in 1..Len(taskLog) :
        /\ taskLog[i].outcome = "success"
        /\ taskLog[i].retries = max_retries
        /\ taskLog[i].channel # DefaultChannels[1]

\* C13: an attempt with retry count max_retries that fails, by total failure
\* or by an unexpected fault, returns the 'max_retries_exceeded' result and
\* publishes nothing.
C13_ExhaustionReported ==
    \A i \in 1..Len(taskLog) :
        (taskLog[i].retries = max_retries
         /\ taskLog[i].outcome \notin {"success", "user_not_found"}) =>
            /\ taskLog[i].outcome = "max_retries_exceeded"
            /\ taskLog[i].publishes = <<>>

\* C14: an attempt that ends in an unexpected fault with retries remaining
\* publishes exactly one retry, with countdown 30 and the next retry count of
\* the one budget, and leaves by raising Retry.
C14_UnexpectedFaultRetriesOnce ==
    /\ [][(request.active /\ pc = "raised" /\ request.retries < max_retries
            /\ Len(taskLog') > Len(taskLog)) =>
            queue' = queue (+) SetToBag({[retries |-> request.retries + 1,
                                          countdown |-> unexpected_error_countdown]})]_vars
    /\ [](\A i \in UnexpectedFaults :
            taskLog[i].retries < max_retries =>
                /\ taskLog[i].outcome = "Retry"
                /\ taskLog[i].publishes =
                    <<[retries |-> taskLog[i].retries + 1,
                       countdown |-> unexpected_error_countdown]>>)

\* C14 witness: a retried attempt with retries remaining ended in a fault
\* raised by the engine, and its retry is waiting
C14_Witness ==
    /\ pc = "idle"
    /\ Len(taskLog) > 0
    /\ taskLog[Len(taskLog)].send = "raised"
    /\ taskLog[Len(taskLog)].retries \in 1..(max_retries - 1)
    /\ BagIn([retries |-> taskLog[Len(taskLog)].retries + 1,
              countdown |-> unexpected_error_countdown], queue)

\* C15: the retry a failing attempt schedules for its failure (the first
\* message it publishes) has a delay above zero that is not below the delay
\* the attempt itself was scheduled with.
C15_DelaysNeverDecrease ==
    [][(request.active /\ Len(taskLog') > Len(taskLog)
        /\ Ended.publishes # <<>>) =>
            /\ Ended.publishes[1].countdown > 0
            /\ request.countdown > 0 =>
                    Ended.publishes[1].countdown >= request.countdown]_vars

--------------------------------------------------------------------------
(* Properties of successive engine runs and of the delivery report *)

\* C16: a service starts with an empty failure list and no successful
\* channel; and when a caller's run has returned after the same channels
\* behaved the same way (the database included) as in its previous returned
\* run, send returned the same value and the report is the same, the run has
\* a record of its own and the previous record is as the previous run left it.
C16_RunsIndependent ==
    /\ pc = "constructed" =>
            failed_channels = <<>> /\ last_successful_channel = None
    /\ (pc = "returned" /\ lastRun.finished /\ channels = lastRun.channels
        /\ sendLog = lastRun.sendLog /\ RunFaults = lastRun.faults) =>
            /\ result = lastRun.result
            /\ get_delivery_report = lastRun.report
            /\ notification.id # lastRun.id
            /\ db[lastRun.id] = lastRun.row

\* C16 witness: the second of two equal runs has returned; in each the first
\* channel failed and the second delivered
C16_Witness ==
    /\ pc = "returned"
    /\ lastRun.finished
    /\ channels = lastRun.channels
    /\ sendLog = lastRun.sendLog
    /\ RunFaults = lastRun.faults
    /\ sendLog = <<"False", "True">>
    /\ get_delivery_report.failed_channels = <<DefaultChannels[1]>>

\* C18: the report's total_channels_attempted is the number of failed channels
\* plus one when a channel succeeded, is the number of channel.send calls the
\* run made, and is at most the number of configured channels.
C18_AttemptedCount ==
    /\ get_delivery_report.total_channels_attempted =
            Len(get_delivery_report.failed_channels)
            + (IF get_delivery_report.success THEN 1 ELSE 0)
    /\ get_delivery_report.total_channels_attempted = Len(sendLog)
    /\ get_delivery_report.total_channels_attempted <= Len(channels)

\* C18 witness: a returned run that stopped at the second of three channels
\* after the first raised: two attempted, three configured
C18_Witness ==
    /\ pc = "returned"
    /\ Len(channels) = 3
    /\ sendLog = <<"raise", "True">>
    /\ get_delivery_report.total_channels_attempted = 2

\* C19: with no channel configured a run invokes no channel and raises
\* nothing of its own; its record is 'pending' until the run ends and 'failed'
\* when it has returned, send returned False and the report has success =
\* false, no failed channel and total_channels_attempted = 0.
C19_EmptyChannelList ==
    channels = <<>> =>
        /\ sendLog = <<>>
        /\ pc = "raised" => exc = "DatabaseError"
        /\ pc = "loop" => Row.status = "pending"
        /\ pc = "returned" =>
            /\ result = "False"
            /\ Row.status = "failed"
            /\ get_delivery_report.success = FALSE
            /\ get_delivery_report.failed_channels = <<>>
            /\ get_delivery_report.total_channels_attempted = 0

\* C19 witness: a run over an empty channel list has returned
C19_Witness ==
    /\ pc = "returned"
    /\ channels = <<>>
    /\ Row.status = "failed"

--------------------------------------------------------------------------
(* Properties of the channels *)

--------------------------------------------------------------------------
(* Properties of concurrent attempts *)

\* C20: with two workers interleaving attempts (of two submissions and of the
\* retries of one), every step that inserts a record inserts one, for the
\* run of the worker taking the step; every step that changes a record
\* changes the one that worker's run created, from 'pending' to 'sent' or
\* 'failed'; the two workers never hold the same record; there is one record
\* per engine run whose insert did not raise; and a run that has returned
\* has made its terminal update.
C20_RunOwnsItsRecord ==
    /\ [][\A id \in 1..Len(db') :
            IF id > Len(db)
            THEN /\ Len(db') = Len(db) + 1
                 /\ runs' = runs + 1
                 /\ notification'.id = id
                 /\ parked'.notification.id # id
            ELSE db'[id] # db[id] =>
                 /\ id = notification.id
                 /\ parked.notification.id # id
                 /\ db[id].status = "pending"
                 /\ db'[id].status \in {"sent", "failed"}]_vars
    /\ [](Len(db) <= runs /\ runs <= Len(db) + dbFaults)
    /\ []((notification.id # 0 /\ parked.notification.id # 0) =>
            notification.id # parked.notification.id)
    /\ [](pc = "returned" => db[notification.id].status \in {"sent", "failed"})
    /\ [](parked.pc = "returned" =>
            db[parked.notification.id].status \in {"sent", "failed"})

\* C20 witness: a run created record 1 and is still in its loop while the
\* other worker's run created record 2, made its terminal update and
\* returned: the first run's update is still to come
C20_Witness ==
    /\ pc = "loop"
    /\ notification.id = 1
    /\ db[1].status = "pending"
    /\ parked.pc = "returned"
    /\ parked.notification.id = 2
    /\ db[2].status = "failed"
    /\ runs = 2

--------------------------------------------------------------------------
(* Properties of a run whose 'sent' update fails *)

\* C21: no channel whose send returned True in this run is listed in
\* failed_channels, and a run in which some channel's send returned True
\* does not return False nor leave its record 'failed'.
C21_DeliveredNeverFailed ==
    /\ \A i \in Delivered :
        \A k \in 1..Len(failed_channels) : failed_channels[k] # channels[i]
    /\ (pc = "returned" /\ Delivered # {}) =>
            result = "True" /\ Row.status # "failed"

--------------------------------------------------------------------------
(* Termination of a submission *)

\* the most attempts a message with retry count r can still lead to: its own
\* and, while r < max_retries, those of the two retries a failing attempt
\* publishes (countdown 60 and countdown 30)
RECURSIVE Weight(_)
Weight(r) == IF r >= max_retries THEN 1 ELSE 1 + 2 * Weight(r + 1)

\* Weight summed over the messages of a set, each counted as often as it is
\* in the queue
RECURSIVE QueuedWeight(_)
QueuedWeight(ms) ==
    IF ms = {} THEN 0
    ELSE LET m == CHOOSE x \in ms : TRUE
         IN  CopiesIn(m, queue) * Weight(m.retries) + QueuedWeight(ms \ {m})

\* the most attempts still to come: those of the attempt under way and of
\* the queued messages
AttemptsLeft ==
    QueuedWeight(BagToSet(queue))
    + (IF request.active THEN Weight(request.retries) ELSE 0)

\* nothing is queued and no attempt is under way
Quiescent == ~request.active /\ queue = NoMessages

\* attempt i ended its chain in a terminal state: Completed, NotFound, or
\* ExhaustedFailure (it failed with retry count max_retries)
EndedTerminal(i) ==
    \/ taskLog[i].outcome \in {"success", "user_not_found"}
    \/ taskLog[i].retries = max_retries /\ taskLog[i].send # "True"

\* C22: a submission leads to at most Weight(0) = 15 attempts: no step raises
\* the number of attempts still to come and every attempt that ends lowers
\* it; an attempt that publishes no retry ended in a terminal state; and with
\* a worker that keeps going, every attempt under way ends and the
\* submission comes to rest (or the MaxFairAttempts attempts of the behaviour
\* are used up).
C22_NoRetryForever ==
    /\ [][/\ AttemptsLeft' <= AttemptsLeft
          /\ Len(taskLog') > Len(taskLog) => AttemptsLeft' < AttemptsLeft]_vars
    /\ [](Len(taskLog) + AttemptsLeft <= Weight(0))
    /\ [](\A i \in 1..Len(taskLog) :
            taskLog[i].publishes = <<>> => EndedTerminal(i))
    /\ (request.active ~> ~request.active)
    /\ <>(Quiescent \/ Len(taskLog) = MaxFairAttempts)

\* C22 witness: the submission has come to rest after a retried attempt
\* succeeded, with attempts of the behaviour to spare
C22_Witness ==
    /\ Quiescent
    /\ pc = "idle"
    /\ Len(taskLog) < MaxFairAttempts
    /\ \E i \in 1..Len(taskLog) :
        taskLog[i].retries > 0 /\ taskLog[i].outcome = "success"

--------------------------------------------------------------------------
(* Properties of the engine over the channels of channels.py *)

\* C23: a run over the default channels for a recipient without a chat id,
\* in which the email channel's send returned True (the address is set, the
\* settings are and the transport accepted), has returned with
\* failed_channels = [telegram] and successful_channel = email.
C23_ScenarioA ==
    (/\ pc = "returned"
     /\ ~chan.user.telegram_chat_id
     /\ Len(sendLog) >= 2
     /\ sendLog[2] = "True") =>
        /\ get_delivery_report.failed_channels = <<"telegram">>
        /\ get_delivery_report.successful_channel = "email"

==========================================================================
